---- MODULE Spec2Model ----
(***************************************************************************)
(* Model of the B3 futures-curve collectors:                               *)
(*   coleta_di.py          - scrape path, di1_database.json, 30 days       *)
(*   coleta_di_fallback.py - API path, one file per asset (DI1, DAP),      *)
(*                           90 days, time-sensitive trade-date decision   *)
(* Calendar days are integers; a date key "YYYY-MM-DD" is the integer of   *)
(* its day, and NonDateKey stands for a key that is not date-shaped.       *)
(***************************************************************************)
EXTENDS Integers, Sequences, FiniteSets, TLC

VARIABLES path, cal, now, file, pc, ai, db, idx, hoje_ts, date_to_save,
          alteracao_detectada, runs, loaded, attempted, fileAtStart, writes,
          prev, arg, result

vars == <<path, cal, now, file, pc, ai, db, idx, hoje_ts, date_to_save,
          alteracao_detectada, runs, loaded, attempted, fileAtStart, writes,
          prev, arg, result>>

----------------------------------------------------------------------------
(* Bounds of the model *)

\* last calendar day of the modelled horizon (day 0 is a business day)
MaxDay == 3
\* number of runs of the script in one behaviour
MaxRuns == 2
\* length of the trailing window of the scrape path (30 in the source)
DiasScrape == 2
\* length of the trailing window of the API path (90 in the source)
DiasFallback == 3

(* Program constants *)
HORA_AJUSTE == 18
MINUTO_AJUSTE == 1

\* a key of the JSON object that does not match ^\d{4}-\d{2}-\d{2}$
NonDateKey == 1000
\* "no date decided yet"
NoDate == 0 - 1000

DIAS_HISTORICO(p) == IF p = "scrape" THEN DiasScrape ELSE DiasFallback

\* ASSETS_CONFIG: the scrape script has the single file of DI1
ASSETS_CONFIG(p) == IF p = "scrape" THEN <<"DI1">> ELSE <<"DI1", "DAP">>

Assets == {"DI1", "DAP"}

\* wall-clock times of day (hour, minute) at which a run starts
Times == {<<18, 0>>, <<18, 1>>}

----------------------------------------------------------------------------
(* Day entries and store files *)

NoTs == <<NoDate, 0, 0>>

EntryFeriado == [status |-> "feriado", contratos |-> <<>>]
EntryDiaUtil(contratos) == [status |-> "dia_util", contratos |-> contratos]
EntryErro(msg) == [status |-> "erro_coleta", contratos |-> <<>>, erro_msg |-> msg]

EmptyMap == [k \in {} |-> EntryFeriado]

EmptyDB == [metadata |-> NoTs, data |-> EmptyMap]

\* contents of a store file on disk
FileAbsent == [shape |-> "absent", metadata |-> NoTs, data |-> EmptyMap]
FileInvalid == [shape |-> "invalid_json", metadata |-> NoTs, data |-> EmptyMap]
FileNumber == [shape |-> "number", metadata |-> NoTs, data |-> EmptyMap]
FileArray == [shape |-> "array", metadata |-> NoTs, data |-> EmptyMap]
FileEmptyArray == [shape |-> "empty_array", metadata |-> NoTs, data |-> EmptyMap]
FileFlat(d) == [shape |-> "flat", metadata |-> NoTs, data |-> d]
FileWrapped(m, d) == [shape |-> "wrapped", metadata |-> m, data |-> d]

\* a map given by a set of <<key, entry>> pairs with distinct keys
MapOf(S) == [k \in {p[1] : p \in S} |-> (CHOOSE p \in S : p[1] = k)[2]]

SampleOk == EntryDiaUtil(<<"DI1F26">>)

InitFiles ==
  { FileAbsent, FileInvalid, FileNumber, FileArray, FileEmptyArray,
    FileFlat(EmptyMap),
    FileFlat(MapOf({<<NonDateKey, SampleOk>>, <<1, SampleOk>>})),
    FileFlat(MapOf({<<0, SampleOk>>, <<1, EntryErro("Vazio")>>,
                    <<MaxDay + 1, EntryFeriado>>})),
    FileWrapped(<<0, 18, 1>>,
                MapOf({<<0 - 5, SampleOk>>, <<2, EntryErro("Vazio")>>,
                       <<3, SampleOk>>, <<NonDateKey, EntryFeriado>>,
                       <<MaxDay + 1, SampleOk>>})) }

\* initial dap_database_fallback.json; the scrape path has no such file
InitFilesDAP(p) == IF p = "api" THEN {FileAbsent, FileArray} ELSE {FileAbsent}

----------------------------------------------------------------------------
(* Business-day calendar (bizdays.Calendar 'ANBIMA'): c is the set of      *)
(* business days                                                           *)

isbizday(c, d) == d \in c

RECURSIVE adjust_previous(_, _)
adjust_previous(c, d) ==
  IF isbizday(c, d) \/ d <= 0 THEN d ELSE adjust_previous(c, d - 1)

\* variant: the calendar day before d
offset_minus1_calendar(c, d) == d - 1

\* cal.offset(d, -1), called on a business day d
offset_minus1(c, d) == adjust_previous(c, d - 1)

----------------------------------------------------------------------------
(* carregar_database *)

AllDateKeys(d) == \A k \in DOMAIN d : k # NonDateKey

carregar_database(f) ==
  CASE f.shape = "absent" -> [raised |-> FALSE, db |-> EmptyDB]
    [] f.shape = "invalid_json" -> [raised |-> FALSE, db |-> EmptyDB]
    \* "metadata" in 5 raises TypeError, which is not caught
    [] f.shape = "number" -> [raised |-> TRUE, db |-> EmptyDB]
    \* [1].keys() raises AttributeError, which is not caught
    [] f.shape = "array" -> [raised |-> TRUE, db |-> EmptyDB]
    \* [] is falsy: the all(...) over keys is not evaluated
    [] f.shape = "empty_array" -> [raised |-> FALSE, db |-> EmptyDB]
    [] f.shape = "wrapped" ->
         [raised |-> FALSE, db |-> [metadata |-> f.metadata, data |-> f.data]]
    [] f.shape = "flat" ->
         IF DOMAIN f.data # {} /\ AllDateKeys(f.data)
           THEN [raised |-> FALSE, db |-> [metadata |-> NoTs, data |-> f.data]]
           ELSE [raised |-> FALSE, db |-> EmptyDB]

\* salvar_database: json.dump of the whole db
salvar_database(d) == FileWrapped(d.metadata, d.data)

----------------------------------------------------------------------------
(* Trade-date decision of the API path (Etapa 1) *)

\* variant: the minute of the cutoff itself still counts as before the close
is_after_close_strict(hour, minute) ==
  (hour > HORA_AJUSTE) \/ (hour = HORA_AJUSTE /\ minute > MINUTO_AJUSTE)

is_after_close(hour, minute) ==
  (hour > HORA_AJUSTE) \/ (hour = HORA_AJUSTE /\ minute >= MINUTO_AJUSTE)

AttributedDate(c, ts) ==
  IF isbizday(c, ts[1]) /\ ~is_after_close(ts[2], ts[3])
    THEN offset_minus1(c, ts[1])
    ELSE adjust_previous(c, ts[1])

----------------------------------------------------------------------------
(* The trailing window: pd.date_range(hoje - (N - 1), hoje) *)

\* variant: the range ends the day before hoje
datas_desejadas_shifted(hoje, n) == [i \in 1..n |-> hoje - n + (i - 1)]

datas_desejadas(hoje, n) == [i \in 1..n |-> hoje - (n - 1) + (i - 1)]

datas_iso_desejadas(hoje, n) == {datas_desejadas(hoje, n)[i] : i \in 1..n}

\* variant: only the keys older than the window are deleted
chaves_para_apagar_old_only(data, hoje, n) ==
  {k \in DOMAIN data : k < hoje - (n - 1)}

chaves_para_apagar(data, hoje, n) ==
  {k \in DOMAIN data : k \notin datas_iso_desejadas(hoje, n)}

\* variant: a date stored as erro_coleta is collected again
InDataHistorico_retry_erro(data, k) ==
  k \in DOMAIN data /\ data[k].status # "erro_coleta"

\* variant: a date stored without contracts is collected again
InDataHistorico_retry_empty(data, k) ==
  k \in DOMAIN data /\ data[k].contratos # <<>>

\* "if data_iso in data_historico": the date is skipped
InDataHistorico(data, k) == k \in DOMAIN data

Put(data, k, e) ==
  [x \in (DOMAIN data) \cup {k} |-> IF x = k THEN e ELSE data[x]]

Restrict(data, S) == [x \in S |-> data[x]]

----------------------------------------------------------------------------
(* Acquisition of one date on the scrape path:                             *)
(* get_b3_di1_tables -> combine_vencto_and_ajuste -> calculate_di1_rates   *)
(* -> formatar_dados_para_json.  A page is what the bulletin site serves.  *)

Pages == {"nav_timeout", "no_tables", "unalignable", "empty_curve", "curve"}

\* the exception a page makes the pipeline raise, "" when it raises none
ScrapeException(page) ==
  CASE page = "nav_timeout" -> "Timeout navigating"
    [] page = "no_tables" -> "No tables found in the HTML"
    [] page = "unalignable" -> "Could not locate matching tables"
    [] OTHER -> ""

\* contracts of the page, the code prefixed with "DI1"
ScrapeContratos(page) == IF page = "curve" THEN <<"DI1F26">> ELSE <<>>

\* variant: an exception is recorded as a trading day without contracts
ScrapeEntry_swallow(page) == EntryDiaUtil(ScrapeContratos(page))

\* the Day Entry written by the try/except around the pipeline
ScrapeEntry(page) ==
  IF ScrapeException(page) # ""
    THEN EntryErro(ScrapeException(page))
    ELSE EntryDiaUtil(ScrapeContratos(page))

----------------------------------------------------------------------------
(* Acquisition on the API path: fetch_and_process_b3_api.  A payload is    *)
(* what the quotation endpoint answers.                                    *)

Payloads == {"request_exception", "no_scty", "scty_not_iterable",
             "all_skipped", "contracts"}

\* an exception that leaves fetch_and_process_b3_api, "" when none does
ApiException(payload) ==
  IF payload = "scty_not_iterable" THEN "not iterable" ELSE ""

\* rows of the returned DataFrame (requests.RequestException and a missing
\* 'Scty' return an empty DataFrame)
ApiContratos(payload, asset) ==
  IF payload = "contracts"
    THEN (IF asset = "DI1" THEN <<"DI1F26">> ELSE <<"DAPK26">>)
    ELSE <<>>

\* variant: an empty DataFrame is recorded as a trading day without contracts
ApiEntry_empty_ok(payload, asset) ==
  IF ApiException(payload) # ""
    THEN EntryErro(ApiException(payload))
    ELSE EntryDiaUtil(ApiContratos(payload, asset))

ApiEntry(payload, asset) ==
  IF ApiException(payload) # ""
    THEN EntryErro(ApiException(payload))
    ELSE IF ApiContratos(payload, asset) = <<>>
      THEN EntryErro("Vazio")
      ELSE EntryDiaUtil(ApiContratos(payload, asset))

----------------------------------------------------------------------------
Init ==
  /\ path \in {"scrape", "api"}
  /\ cal \in {c \in SUBSET (0..MaxDay) : 0 \in c}
  /\ now \in {<<d, t[1], t[2]>> : d \in 1..MaxDay, t \in Times}
  /\ \E f \in InitFiles, g \in InitFilesDAP(path) :
       file = [a \in Assets |-> IF a = "DI1" THEN f ELSE g]
  /\ pc = "idle"
  /\ ai = 1
  /\ db = EmptyDB
  /\ idx = 1
  /\ hoje_ts = NoTs
  /\ date_to_save = NoDate
  /\ alteracao_detectada = FALSE
  /\ runs = 0
  /\ loaded = [a \in Assets |-> EmptyMap]
  /\ attempted = <<>>
  /\ fileAtStart = file
  /\ writes = [a \in Assets |-> 0]
  /\ prev = [valid |-> FALSE, hoje |-> NoDate, date_to_save |-> NoDate,
             failed |-> {}]
  /\ arg = <<>>
  /\ result = <<>>

Ended == {"idle", "done", "aborted", "crashed"}

\* the clock moves on between two runs
Tick ==
  /\ pc \in Ended
  /\ \E d \in 1..MaxDay, t \in Times :
       /\ \/ d > now[1]
          \/ d = now[1] /\ t[1] * 60 + t[2] > now[2] * 60 + now[3]
       /\ now' = <<d, t[1], t[2]>>
  /\ UNCHANGED <<arg, result, path, cal, file, pc, ai, db, idx, hoje_ts, date_to_save,
                 alteracao_detectada, runs, loaded, attempted, fileAtStart,
                 writes, prev>>

nome == ASSETS_CONFIG(path)[ai]
hoje == hoje_ts[1]

\* an attempt <<asset, date, input>> that was stored as erro_coleta
Failed(t) ==
  IF path = "scrape" THEN ScrapeEntry(t[3]).status = "erro_coleta"
                     ELSE ApiEntry(t[3], t[1]).status = "erro_coleta"

\* start of executar_atualizacao_principal: calendar load and run context
StartRun ==
  /\ pc \in Ended
  /\ runs < MaxRuns
  /\ runs' = runs + 1
  /\ \E cal_loaded \in BOOLEAN :
       IF cal_loaded
         THEN /\ pc' = "load"
              /\ hoje_ts' = now
              /\ date_to_save' = IF path = "api" THEN AttributedDate(cal, now)
                                                 ELSE NoDate
         ELSE /\ pc' = "aborted"
              /\ hoje_ts' = NoTs
              /\ date_to_save' = NoDate
  /\ ai' = 1
  /\ idx' = 1
  /\ alteracao_detectada' = FALSE
  /\ loaded' = [a \in Assets |-> EmptyMap]
  /\ attempted' = <<>>
  /\ fileAtStart' = file
  /\ writes' = [a \in Assets |-> 0]
  /\ prev' = [valid |-> (pc = "done"), hoje |-> hoje,
              date_to_save |-> date_to_save,
              failed |-> {<<attempted[i][1], attempted[i][2]>> :
                            i \in {j \in 1..Len(attempted) :
                                     Failed(attempted[j])}}]
  /\ UNCHANGED <<arg, result, path, cal, now, file, db>>

\* variant: the store is written back as soon as it is loaded
LoadDB_early_save ==
  /\ pc = "load"
  /\ LET r == carregar_database(file[nome]) IN
       IF r.raised
         THEN /\ pc' = "crashed"
              /\ UNCHANGED <<db, loaded, file>>
         ELSE /\ pc' = IF path = "scrape" THEN "loop" ELSE "acquire"
              /\ db' = [r.db EXCEPT !.metadata = hoje_ts]
              /\ loaded' = [loaded EXCEPT ![nome] = r.db.data]
              /\ file' = [file EXCEPT ![nome] = salvar_database(db')]
  /\ idx' = 1
  /\ alteracao_detectada' = FALSE
  /\ UNCHANGED <<arg, result, path, cal, now, ai, hoje_ts, date_to_save, runs,
                 attempted, fileAtStart, writes, prev>>

\* db = carregar_database(...); data_historico = db.get('data', {})
LoadDB ==
  /\ pc = "load"
  /\ LET r == carregar_database(file[nome]) IN
       IF r.raised
         THEN /\ pc' = "crashed"
              /\ UNCHANGED <<db, loaded>>
         ELSE /\ pc' = IF path = "scrape" THEN "loop" ELSE "acquire"
              /\ db' = IF path = "scrape"
                         THEN [r.db EXCEPT !.metadata = hoje_ts]
                         ELSE r.db
              /\ loaded' = [loaded EXCEPT ![nome] = r.db.data]
  /\ idx' = 1
  /\ alteracao_detectada' = FALSE
  /\ UNCHANGED <<arg, result, path, cal, now, file, ai, hoje_ts, date_to_save, runs,
                 attempted, fileAtStart, writes, prev>>

\* one iteration of the scrape loop over datas_desejadas
ScrapeDate ==
  /\ pc = "loop"
  /\ LET d == datas_desejadas(hoje, DiasScrape)[idx] IN
       IF InDataHistorico(db.data, d)
         THEN UNCHANGED <<db, alteracao_detectada, attempted>>
         ELSE /\ alteracao_detectada' = TRUE
              /\ IF ~isbizday(cal, d)
                   THEN /\ db' = [db EXCEPT !.data = Put(@, d, EntryFeriado)]
                        /\ UNCHANGED attempted
                   ELSE \E page \in Pages :
                          /\ db' = [db EXCEPT
                                      !.data = Put(@, d, ScrapeEntry(page))]
                          /\ attempted' = Append(attempted, <<nome, d, page>>)
  /\ idx' = idx + 1
  /\ pc' = IF idx = DiasScrape THEN "prune" ELSE "loop"
  /\ UNCHANGED <<arg, result, path, cal, now, file, ai, hoje_ts, date_to_save, runs,
                 loaded, fileAtStart, writes, prev>>

\* Etapa 2 of the API path: collect the attributed date if it is missing
ApiAcquire ==
  /\ pc = "acquire"
  /\ IF ~InDataHistorico(db.data, date_to_save)
       THEN \E payload \in Payloads :
              /\ db' = [db EXCEPT
                          !.data = Put(@, date_to_save, ApiEntry(payload, nome))]
              /\ alteracao_detectada' = TRUE
              /\ attempted' = Append(attempted, <<nome, date_to_save, payload>>)
       ELSE UNCHANGED <<db, alteracao_detectada, attempted>>
  /\ pc' = "fill"
  /\ UNCHANGED <<arg, result, path, cal, now, file, ai, idx, hoje_ts, date_to_save, runs,
                 loaded, fileAtStart, writes, prev>>

\* variant: every missing day of the window is filled
FeriadosFaltando_all(data, c, h, n) ==
  {d \in datas_iso_desejadas(h, n) : d \notin DOMAIN data}

\* Etapa 3 e 4 of the API path: fill the missing non-business days
FeriadosFaltando(data, c, h, n) ==
  {d \in datas_iso_desejadas(h, n) : d \notin DOMAIN data /\ ~isbizday(c, d)}

ApiFill ==
  /\ pc = "fill"
  /\ LET F == FeriadosFaltando(db.data, cal, hoje, DiasFallback) IN
       /\ db' = [db EXCEPT !.data =
                   [x \in (DOMAIN @) \cup F |->
                      IF x \in F THEN EntryFeriado ELSE @[x]]]
       /\ alteracao_detectada' = (alteracao_detectada \/ F # {})
  /\ pc' = "prune"
  /\ UNCHANGED <<arg, result, path, cal, now, file, ai, idx, hoje_ts, date_to_save, runs,
                 loaded, attempted, fileAtStart, writes, prev>>

\* Pruning: delete every key outside the window
Prune ==
  /\ pc = "prune"
  /\ LET K == chaves_para_apagar(db.data, hoje, DIAS_HISTORICO(path)) IN
       /\ db' = [db EXCEPT !.data = Restrict(@, (DOMAIN @) \ K)]
       /\ alteracao_detectada' = (alteracao_detectada \/ K # {})
  /\ pc' = "save"
  /\ UNCHANGED <<arg, result, path, cal, now, file, ai, idx, hoje_ts, date_to_save, runs,
                 loaded, attempted, fileAtStart, writes, prev>>

\* Salvar: last_updated and salvar_database, then the next asset
Save ==
  /\ pc = "save"
  /\ db' = IF path = "api" THEN [db EXCEPT !.metadata = hoje_ts] ELSE db
  /\ IF path = "api" \/ alteracao_detectada \/ db.metadata = hoje_ts
       THEN /\ file' = [file EXCEPT ![nome] = salvar_database(db')]
            /\ writes' = [writes EXCEPT ![nome] = @ + 1]
       ELSE UNCHANGED <<file, writes>>
  /\ IF ai < Len(ASSETS_CONFIG(path))
       THEN /\ ai' = ai + 1
            /\ pc' = "load"
       ELSE /\ ai' = ai
            /\ pc' = "done"
  /\ UNCHANGED <<arg, result, path, cal, now, idx, hoje_ts, date_to_save,
                 alteracao_detectada, runs, loaded, attempted,
                 fileAtStart, prev>>

\* Etapa 1 alone: the decision of the date the quote belongs to
DecideDate ==
  /\ pc = "attr"
  /\ pc' = "attr_done"
  /\ hoje_ts' = now
  /\ date_to_save' = AttributedDate(cal, now)
  /\ UNCHANGED <<arg, result, path, cal, now, file, ai, db, idx, alteracao_detectada, runs,
                 loaded, attempted, fileAtStart, writes, prev>>

Next ==
  \/ Tick
  \/ StartRun
  \/ LoadDB
  \/ ScrapeDate
  \/ ApiAcquire
  \/ ApiFill
  \/ Prune
  \/ Save

Spec == Init /\ [][Next]_vars

\* runs that start with no entry in any store
InitEmpty ==
  /\ Init
  /\ \A a \in Assets : DOMAIN file[a].data = {}

SpecEmpty == InitEmpty /\ [][Next]_vars

\* every timestamp of the grid and every calendar, for the date decision
AttrTimes == {<<h, m>> : h \in {17, 18, 19}, m \in {0, 1, 2, 59}}

InitAttr ==
  /\ path = "api"
  /\ cal \in {c \in SUBSET (0..MaxDay) : 0 \in c}
  /\ now \in {<<d, t[1], t[2]>> : d \in 1..MaxDay, t \in AttrTimes}
  /\ file = [a \in Assets |-> FileAbsent]
  /\ pc = "attr"
  /\ ai = 1
  /\ db = EmptyDB
  /\ idx = 1
  /\ hoje_ts = NoTs
  /\ date_to_save = NoDate
  /\ alteracao_detectada = FALSE
  /\ runs = 0
  /\ loaded = [a \in Assets |-> EmptyMap]
  /\ attempted = <<>>
  /\ fileAtStart = file
  /\ writes = [a \in Assets |-> 0]
  /\ prev = [valid |-> FALSE, hoje |-> NoDate, date_to_save |-> NoDate,
             failed |-> {}]
  /\ arg = <<>>
  /\ result = <<>>

NextAttr == DecideDate

SpecAttr == InitAttr /\ [][NextAttr]_vars

----------------------------------------------------------------------------
(* Quote normalizer: _norm, _looks_like_vencto, _looks_like_ajuste_block   *)
(* and combine_vencto_and_ajuste.  A cell is a sequence of characters      *)
(* ("e'" is e with acute accent); a block (DataFrame) has a number of      *)
(* columns and the cells of its first column, one per row.                 *)

\* bounds of the table lists
MaxTables == 8
MaxMarked == 3

\* unicodedata.normalize("NFKD") and removal of the combining marks
Unaccent(ch) ==
  CASE ch = "e'" -> "e"
    [] ch = "E'" -> "E"
    [] OTHER -> ch

IsSpace(ch) == ch \in {" ", "\t"}

\* str.upper on the letters of the headers and of the month codes
Upper(ch) ==
  CASE ch = "a" -> "A" [] ch = "c" -> "C" [] ch = "e" -> "E"
    [] ch = "f" -> "F" [] ch = "g" -> "G" [] ch = "h" -> "H"
    [] ch = "k" -> "K" [] ch = "m" -> "M" [] ch = "q" -> "Q"
    [] ch = "z" -> "Z"
    [] ch = "j" -> "J" [] ch = "n" -> "N" [] ch = "o" -> "O"
    [] ch = "r" -> "R" [] ch = "s" -> "S" [] ch = "t" -> "T"
    [] ch = "u" -> "U" [] ch = "v" -> "V" [] ch = "x" -> "X"
    [] OTHER -> ch

\* re.sub(r"\s+", " ", s): every run of whitespace becomes one space
RECURSIVE CollapseSpaces(_)
CollapseSpaces(s) ==
  IF s = <<>> THEN <<>>
  ELSE IF IsSpace(Head(s))
    THEN IF Len(s) > 1 /\ IsSpace(s[2])
           THEN CollapseSpaces(Tail(s))
           ELSE <<" ">> \o CollapseSpaces(Tail(s))
    ELSE <<Head(s)>> \o CollapseSpaces(Tail(s))

\* str.strip after the collapse: at most one space at each end
Strip(s) ==
  LET a == IF s # <<>> /\ s[1] = " " THEN Tail(s) ELSE s
  IN IF a # <<>> /\ a[Len(a)] = " " THEN SubSeq(a, 1, Len(a) - 1) ELSE a

_norm(s) ==
  LET u == [i \in 1..Len(s) |-> Unaccent(s[i])]
      t == Strip(CollapseSpaces(u))
  IN [i \in 1..Len(t) |-> Upper(t[i])]

Contains(s, pat) ==
  \E i \in 1..(Len(s) - Len(pat) + 1) : SubSeq(s, i, i + Len(pat) - 1) = pat

StartsWith(s, pat) == Len(s) >= Len(pat) /\ SubSeq(s, 1, Len(pat)) = pat

VENCTO == <<"V", "E", "N", "C", "T", "O">>
AJUSTE_ANTER == <<"A", "J", "U", "S", "T", "E", " ", "A", "N", "T", "E", "R">>
AJUSTE == <<"A", "J", "U", "S", "T", "E">>

\* len(df)
NRows(df) == Len(df.rows)

_looks_like_vencto(df) ==
  IF df.cols # 1 \/ NRows(df) = 0 THEN FALSE
  ELSE Contains(_norm(df.rows[1]), VENCTO)

\* variant: a first cell that only contains AJUSTE is accepted
_looks_like_ajuste_block_contains(df) ==
  IF df.cols < 11 \/ NRows(df) = 0 THEN FALSE
  ELSE Contains(_norm(df.rows[1]), AJUSTE)

_looks_like_ajuste_block(df) ==
  IF df.cols < 11 \/ NRows(df) = 0 THEN FALSE
  ELSE StartsWith(_norm(df.rows[1]), AJUSTE_ANTER)

\* the pairs the scan over vencto_idxs x ajuste_idxs accepts; indices are
\* those of Python plus one
vencto_idxs(tables) == {i \in 1..Len(tables) : _looks_like_vencto(tables[i])}

ajuste_idxs(tables) ==
  {i \in 1..Len(tables) : _looks_like_ajuste_block(tables[i])}

MatchingPairs(tables) ==
  {p \in vencto_idxs(tables) \X ajuste_idxs(tables) :
     /\ NRows(tables[p[1]]) = NRows(tables[p[2]])
     /\ NRows(tables[p[1]]) > 0}

\* variant: an adjacent pair j = i + 1 is taken first when there is one
FirstMatch_adjacent(tables) ==
  LET M == MatchingPairs(tables)
      Adj == {p \in M : p[2] = p[1] + 1}
      S == IF Adj # {} THEN Adj ELSE M
  IN CHOOSE p \in S :
       \A q \in S : p[1] < q[1] \/ (p[1] = q[1] /\ p[2] <= q[2])

\* the nested loops: the first i of vencto_idxs that has a j of ajuste_idxs
\* with as many rows, and the first such j
FirstMatch(tables) ==
  LET M == MatchingPairs(tables)
  IN CHOOSE p \in M :
       \A q \in M : p[1] < q[1] \/ (p[1] = q[1] /\ p[2] <= q[2])

\* header promotion and pd.concat(axis=1): data rows paired by position
Combined(vencto_df, ajuste_df) ==
  [k \in 1..(NRows(vencto_df) - 1) |->
     <<vencto_df.rows[k + 1], ajuste_df.rows[k + 1]>>]

NoTable == [ok |-> FALSE, how |-> "ValueError", i |-> 0, j |-> 0,
            combined |-> <<>>]

combine_vencto_and_ajuste(tables) ==
  IF tables = <<>> THEN NoTable
  ELSE IF /\ Len(tables) >= 8
          /\ _looks_like_vencto(tables[7])
          /\ _looks_like_ajuste_block(tables[8])
          /\ NRows(tables[7]) = NRows(tables[8])
    THEN [ok |-> TRUE, how |-> "positional", i |-> 7, j |-> 8,
          combined |-> Combined(tables[7], tables[8])]
  ELSE IF MatchingPairs(tables) # {}
    THEN LET p == FirstMatch(tables)
         IN [ok |-> TRUE, how |-> "matched", i |-> p[1], j |-> p[2],
             combined |-> Combined(tables[p[1]], tables[p[2]])]
  ELSE NoTable

\* blocks of a bulletin page
CellF26 == <<"F", "2", "6">>
CellG26 == <<"G", "2", "6">>
CellP1 == <<"9", "9">>
CellP2 == <<"9", "8">>
BlockV2 == [cols |-> 1, rows |-> << <<"V", "e", "n", "c", "t", "o">>, CellF26 >>]
BlockV3 == [cols |-> 1,
            rows |-> << <<" ", "V", "E", "N", "C", "T", "O", " ">>,
                        CellF26, CellG26 >>]
BlockA2 == [cols |-> 11, rows |-> << AJUSTE_ANTER \o <<".">>, CellP1 >>]
BlockA3 == [cols |-> 12,
            rows |-> << <<"A", "j", "u", "s", "t", "e", " ", "\t",
                          "A", "n", "t", "e'", "r">>, CellP1, CellP2 >>]
BlockCols10 == [cols |-> 10, rows |-> << AJUSTE_ANTER, CellP1 >>]
BlockAjusteOnly == [cols |-> 11, rows |-> << AJUSTE, CellP1 >>]
BlockVenctoCols2 == [cols |-> 2, rows |-> << VENCTO, CellF26 >>]
BlockEmpty == [cols |-> 1, rows |-> <<>>]
BlockOther == [cols |-> 3, rows |-> << <<"x">>, <<"y">> >>]

MarkedBlocks == {BlockV2, BlockV3, BlockA2, BlockA3, BlockCols10,
                 BlockAjusteOnly, BlockVenctoCols2, BlockEmpty}


InitPure ==
  /\ path = "scrape"
  /\ cal = {0}
  /\ now = <<1, 18, 0>>
  /\ file = [a \in Assets |-> FileAbsent]
  /\ ai = 1
  /\ db = EmptyDB
  /\ idx = 1
  /\ hoje_ts = NoTs
  /\ date_to_save = NoDate
  /\ alteracao_detectada = FALSE
  /\ runs = 0
  /\ loaded = [a \in Assets |-> EmptyMap]
  /\ attempted = <<>>
  /\ fileAtStart = file
  /\ writes = [a \in Assets |-> 0]
  /\ prev = [valid |-> FALSE, hoje |-> NoDate, date_to_save |-> NoDate,
             failed |-> {}]
  /\ result = <<>>

InitNorm ==
  /\ InitPure
  /\ pc = "norm"
  \* lists of at most MaxTables blocks, at most MaxMarked of them not BlockOther
  /\ \E n \in 0..MaxTables :
       \E P \in {Q \in SUBSET (1..n) : Cardinality(Q) <= MaxMarked} :
         \E f \in [P -> MarkedBlocks] :
           arg = [k \in 1..n |-> IF k \in P THEN f[k] ELSE BlockOther]

Combine ==
  /\ pc = "norm"
  /\ pc' = "norm_done"
  /\ result' = combine_vencto_and_ajuste(arg)
  /\ UNCHANGED <<arg, path, cal, now, file, ai, db, idx, hoje_ts,
                 date_to_save, alteracao_detectada, runs, loaded, attempted,
                 fileAtStart, writes, prev>>

NextNorm == Combine

SpecNorm == InitNorm /\ [][NextNorm]_vars

----------------------------------------------------------------------------
(* Maturity resolver: get_maturity_date.  Day 0 is 2026-01-01; the         *)
(* calendar of these specifications has weekends and holidays.             *)

\* last year of the calendars, and the number of candidate holidays
LastYear == 2026
\* days of the month that can be holidays in every month
HolidayDays == {1, 2, 15, 16}

FirstYear == 2026

\* days before the first day of month m in a year of 365 days
DaysBeforeMonth(m) ==
  CASE m = 1 -> 0 [] m = 2 -> 31 [] m = 3 -> 59 [] m = 4 -> 90
    [] m = 5 -> 120 [] m = 6 -> 151 [] m = 7 -> 181 [] m = 8 -> 212
    [] m = 9 -> 243 [] m = 10 -> 273 [] m = 11 -> 304 [] m = 12 -> 334

\* pd.Timestamp(year, month, day).date() as a day number
DayNumber(y, m, d) == (y - FirstYear) * 365 + DaysBeforeMonth(m) + d - 1

\* the calendars cover January of the year after LastYear
Horizon == DayNumber(LastYear + 1, 2, 1)

\* business days of a calendar whose day 0 is weekday w0 (5 and 6 are
\* Saturday and Sunday) and whose holidays are the days H of every month
BizDays(w0, H) ==
  LET holidays == {DayNumber(y, m, h) :
                     y \in FirstYear..(LastYear + 1), m \in 1..12, h \in H}
  IN {d \in 0..Horizon : (d + w0) % 7 < 5 /\ d \notin holidays}

\* variant: always a business day after d
RECURSIVE following_next(_, _)
following_next(c, d) ==
  IF isbizday(c, d + 1) \/ d + 1 >= Horizon THEN d + 1
  ELSE following_next(c, d + 1)

\* calendar.following(d): d itself, or the next business day
RECURSIVE following(_, _)
following(c, d) ==
  IF isbizday(c, d) \/ d >= Horizon THEN d ELSE following(c, d + 1)


MONTH_CODES ==
  [l \in {"F", "G", "H", "J", "K", "M", "N", "Q", "U", "V", "X", "Z"} |->
     CASE l = "F" -> 1 [] l = "G" -> 2 [] l = "H" -> 3 [] l = "J" -> 4
       [] l = "K" -> 5 [] l = "M" -> 6 [] l = "N" -> 7 [] l = "Q" -> 8
       [] l = "U" -> 9 [] l = "V" -> 10 [] l = "X" -> 11 [] l = "Z" -> 12]

Digits == {"0", "1", "2", "3", "4", "5", "6", "7", "8", "9"}

DigitVal(ch) ==
  CASE ch = "0" -> 0 [] ch = "1" -> 1 [] ch = "2" -> 2 [] ch = "3" -> 3
    [] ch = "4" -> 4 [] ch = "5" -> 5 [] ch = "6" -> 6 [] ch = "7" -> 7
    [] ch = "8" -> 8 [] ch = "9" -> 9

\* int(s) of a string of digits
RECURSIVE IntOf(_)
IntOf(s) ==
  IF s = <<>> THEN 0 ELSE IntOf(SubSeq(s, 1, Len(s) - 1)) * 10 + DigitVal(s[Len(s)])

\* the years pd.Timestamp accepts
TimestampYear(y) == y >= 1678 /\ y <= 2261

\* the maturity date of a code for a nominal day of the month; NoDate is
\* None, returned when anything in the try block raises
ResolveMaturity(venc_code, base_day, c) ==
  IF venc_code = <<>> THEN NoDate
  ELSE LET letter == Upper(venc_code[1])
           year_short == Tail(venc_code)
       IN IF letter \notin DOMAIN MONTH_CODES THEN NoDate
          ELSE IF \E i \in 1..Len(year_short) : year_short[i] \notin Digits
            THEN NoDate
          ELSE LET year == IntOf(<<"2", "0">> \o year_short)
               IN IF ~TimestampYear(year) THEN NoDate
                  ELSE following(c, DayNumber(year, MONTH_CODES[letter], base_day))

get_maturity_date(venc_code, c) ==
  IF venc_code = <<>> THEN NoDate
  ELSE LET letter == Upper(venc_code[1])
           year_short == Tail(venc_code)
       IN IF letter \notin DOMAIN MONTH_CODES THEN NoDate
          ELSE IF \E i \in 1..Len(year_short) : year_short[i] \notin Digits
            THEN NoDate
          ELSE LET year == IntOf(<<"2", "0">> \o year_short)
                   first_day_of_month == DayNumber(year, MONTH_CODES[letter], 1)
               IN IF ~TimestampYear(year) THEN NoDate
                  ELSE following(c, first_day_of_month)

\* df_proc.dropna(subset=['MATURITY_DATE'])
dropna_maturity(rows) == SelectSeq(rows, LAMBDA r : r.MATURITY_DATE # NoDate)

\* codes of the contracts of the calendars' years, and codes that do not parse
YearStrings == {<<"2", "6">>}
GoodCodes ==
  {<<l>> \o y : l \in DOMAIN MONTH_CODES, y \in YearStrings}
    \cup {<<"f", "2", "6">>, <<"F", "2", "7">>}
BadCodes == {<<"A", "2", "6">>, <<"F", "x", "6">>, <<"F", "2", "k">>,
             <<"1", "2", "6">>, <<"F", "-", "1">>}
OddCodes == {<<>>, <<"F">>, <<"F", "2", "6", "0">>}

InitMat ==
  /\ InitPure
  /\ pc = "mat"
  /\ \E w0 \in 0..6, H \in SUBSET HolidayDays :
       /\ arg \in {[code |-> k, base_day |-> b, w0 |-> w0, cal |-> BizDays(w0, H)] :
                     k \in GoodCodes \cup BadCodes \cup OddCodes, b \in {1, 15}}

\* the maturity column of one row and the dropna that follows it
Resolve ==
  /\ pc = "mat"
  /\ pc' = "mat_done"
  /\ LET m == IF arg.base_day = 1
                THEN get_maturity_date(arg.code, arg.cal)
                ELSE ResolveMaturity(arg.code, arg.base_day, arg.cal)
     IN result' = [date |-> m,
                   rows |-> dropna_maturity(
                              <<[VENCTO |-> arg.code, MATURITY_DATE |-> m]>>)]
  /\ UNCHANGED <<arg, path, cal, now, file, ai, db, idx, hoje_ts,
                 date_to_save, alteracao_detectada, runs, loaded, attempted,
                 fileAtStart, writes, prev>>

NextMat == Resolve

SpecMat == InitMat /\ [][NextMat]_vars

----------------------------------------------------------------------------
(* Rate engine: the rows that calculate_di1_rates (scrape) and             *)
(* fetch_and_process_b3_api (API) keep, and the Day Entry made of them.    *)

\* most rows of a table or items of a payload
MaxRows == 2

\* cell values: a string, a number (kept as its decimal string), pd.NA/None
NA == [t |-> "NA", v |-> <<>>]
Num(s) == [t |-> "num", v |-> s]
Str(s) == [t |-> "str", v |-> s]

\* str.strip()
RECURSIVE StripAll(_)
StripAll(s) ==
  IF s # <<>> /\ IsSpace(s[1]) THEN StripAll(Tail(s))
  ELSE IF s # <<>> /\ IsSpace(s[Len(s)]) THEN StripAll(SubSeq(s, 1, Len(s) - 1))
  ELSE s

\* pd.to_numeric accepts digits with at most one decimal point
IsDecimal(s) ==
  /\ \E i \in 1..Len(s) : s[i] \in Digits
  /\ \A i \in 1..Len(s) : s[i] \in Digits \cup {"."}
  /\ Cardinality({i \in 1..Len(s) : s[i] = "."}) <= 1

_clean_numeric(x) ==
  IF x.t = "num" THEN x
  ELSE IF x.t = "NA" THEN NA
  ELSE LET s0 == StripAll(x.v) IN
    IF s0 = <<"-">> \/ s0 = <<>> THEN NA
    ELSE LET s1 == IF (\E i \in 1..Len(s0) : s0[i] = ".")
                       /\ (\E i \in 1..Len(s0) : s0[i] = ",")
                     THEN SelectSeq(s0, LAMBDA ch : ch # ".")
                     ELSE s0
             s2 == [i \in 1..Len(s1) |-> IF s1[i] = "," THEN "." ELSE s1[i]]
         IN IF IsDecimal(s2) THEN Num(s2) ELSE NA

\* position of a business day in the calendar's index
IndexOf(c, d) == Cardinality({b \in c : b <= d})

\* cal.bizdays(d_from, d_to) of a financial calendar; with d_from after d_to
\* a release of the library raises and another counts backwards
bizdays(c, d_from, d_to, reversed) ==
  IF d_from > d_to
    THEN IF reversed = "raises"
           THEN [raised |-> TRUE, n |-> 0]
           ELSE [raised |-> FALSE,
                 n |-> 0 - (IndexOf(c, adjust_previous(c, d_from))
                            - IndexOf(c, following(c, d_to)))]
    ELSE [raised |-> FALSE,
          n |-> IndexOf(c, adjust_previous(c, d_to)) - IndexOf(c, following(c, d_from))]

\* variant of the final filter: a contract maturing on the trade date stays
KeepRow_same_day(r) == r.TAXA_ANUAL # NA /\ r.DIAS_UTEIS_N >= 0

\* dropna(subset=['TAXA_ANUAL']) and DIAS_UTEIS_N > 0
KeepRow(r) == r.TAXA_ANUAL # NA /\ r.DIAS_UTEIS_N > 0

\* the rate is not computed here: it is NA exactly when the price is
TaxaOf(ajuste_num) == IF ajuste_num = NA THEN NA ELSE Num(<<"r">>)

\* df is [ajuste_col, rows]: whether a column is named AJUSTE, and the rows
\* [VENCTO, AJUSTE]; lib is the behaviour of the installed libraries
calculate_di1_rates(df, trade_date, c, lib) ==
  IF ~df.ajuste_col THEN [raised |-> TRUE, rows |-> <<>>]
  ELSE
    LET with_mat == [i \in 1..Len(df.rows) |->
                       [VENCTO |-> df.rows[i].VENCTO,
                        AJUSTE_NUM |-> _clean_numeric(df.rows[i].AJUSTE),
                        TRADE_DATE |-> trade_date,
                        MATURITY_DATE |-> get_maturity_date(df.rows[i].VENCTO, c)]]
        df_proc == dropna_maturity(with_mat)
        N(r) == bizdays(c, r.TRADE_DATE, r.MATURITY_DATE, lib.reversed)
    IN IF df_proc = <<>> /\ lib.empty_apply = "raises"
         THEN [raised |-> TRUE, rows |-> <<>>]
       ELSE IF \E i \in 1..Len(df_proc) : N(df_proc[i]).raised
         THEN [raised |-> TRUE, rows |-> <<>>]
       ELSE
         LET full == [i \in 1..Len(df_proc) |->
                        [VENCTO |-> df_proc[i].VENCTO,
                         AJUSTE_NUM |-> df_proc[i].AJUSTE_NUM,
                         TRADE_DATE |-> df_proc[i].TRADE_DATE,
                         MATURITY_DATE |-> df_proc[i].MATURITY_DATE,
                         DIAS_UTEIS_N |-> N(df_proc[i]).n,
                         TAXA_ANUAL |-> TaxaOf(df_proc[i].AJUSTE_NUM)]]
         IN [raised |-> FALSE, rows |-> SelectSeq(full, KeepRow)]

\* the records of formatar_dados_para_json, the code prefixed
formatar_dados_para_json(rows, asset_prefix) ==
  [i \in 1..Len(rows) |->
     [codigo |-> asset_prefix \o rows[i].VENCTO,
      vencimento |-> rows[i].MATURITY_DATE,
      taxa |-> rows[i].TAXA_ANUAL,
      preco_ajuste |-> rows[i].AJUSTE_NUM]]

DI1 == <<"D", "I", "1">>
DAP == <<"D", "A", "P">>

\* the Day Entry of a trading day on the scrape path, from the combined table
ScrapeDayEntry(df, trade_date, c, lib) ==
  LET curva_di_df == calculate_di1_rates(df, trade_date, c, lib)
  IN IF curva_di_df.raised THEN EntryErro("calculate_di1_rates")
     ELSE IF curva_di_df.rows = <<>> THEN EntryDiaUtil(<<>>)
     ELSE EntryDiaUtil(formatar_dados_para_json(curva_di_df.rows, DI1))

\* mtrtyCode values: absent, or a string that is not a date
NoMtrty == NoDate
BadMtrty == NoDate - 1

\* variant of the API filter: a contract maturing on the trade date stays
ApiKeeps_same_day(n) == n >= 0

\* if N > 0
ApiKeeps(n) == n > 0

\* the contract appended for one item of 'Scty', <<>> when it is skipped
ApiRow(item, trade_date, c, ignore_list, lib) ==
  IF item.symb \in ignore_list THEN <<>>
  ELSE IF item.mtrty = NoMtrty THEN <<>>
  ELSE IF item.mtrty = BadMtrty THEN <<>>
  ELSE IF item.price.t # "num" THEN <<>>
  ELSE LET N == bizdays(c, trade_date, item.mtrty, lib.reversed)
       IN IF N.raised THEN <<>>
          ELSE IF ApiKeeps(N.n)
            THEN <<[VENCTO |-> SubSeq(item.symb, 4, Len(item.symb)),
                    MATURITY_DATE |-> item.mtrty,
                    TAXA_ANUAL |-> item.price,
                    AJUSTE_NUM |-> Num(<<"p">>),
                    TRADE_DATE |-> trade_date]>>
            ELSE <<>>

RECURSIVE fetch_and_process_b3_api(_, _, _, _, _)
fetch_and_process_b3_api(items, trade_date, c, ignore_list, lib) ==
  IF items = <<>> THEN <<>>
  ELSE ApiRow(Head(items), trade_date, c, ignore_list, lib)
         \o fetch_and_process_b3_api(Tail(items), trade_date, c, ignore_list, lib)

\* df.sort_values(by='MATURITY_DATE'): a stable insertion sort
RECURSIVE InsertRow(_, _)
InsertRow(r, sorted) ==
  IF sorted = <<>> THEN <<r>>
  ELSE IF r.MATURITY_DATE < Head(sorted).MATURITY_DATE THEN <<r>> \o sorted
  ELSE <<Head(sorted)>> \o InsertRow(r, Tail(sorted))

RECURSIVE sort_values(_)
sort_values(rows) ==
  IF rows = <<>> THEN <<>>
  ELSE InsertRow(rows[Len(rows)], sort_values(SubSeq(rows, 1, Len(rows) - 1)))

ignore_symb(asset_name) == IF asset_name = DI1 THEN {DI1 \o <<"D">>} ELSE {}

\* the Day Entry of the attributed date on the API path
ApiDayEntry(items, trade_date, c, asset_name, lib) ==
  LET df_ativo == fetch_and_process_b3_api(items, trade_date, c, ignore_symb(asset_name), lib)
  IN IF df_ativo = <<>> THEN EntryErro("Vazio")
     ELSE EntryDiaUtil(formatar_dados_para_json(sort_values(df_ativo), asset_name))

\* inputs: rows of a combined table, items of a payload
CurveCodes == {<<"F", "2", "6">>, <<"G", "2", "6">>, <<"A", "2", "6">>}
PriceCells == {Str(<<"9", "9", ".", "8", "8", "9", ",", "8", "3">>), Str(<<"-">>)}
TableRows == {[VENCTO |-> k, AJUSTE |-> a] : k \in CurveCodes, a \in PriceCells}
ApiItems ==
  {[symb |-> DI1 \o <<"F", "2", "6">>, mtrty |-> m, price |-> Num(<<"1", "4">>)] :
     m \in {NoMtrty, BadMtrty, 0, 3, 33}}
  \cup {[symb |-> DI1 \o <<"D">>, mtrty |-> 33, price |-> Num(<<"1", "4">>)],
        [symb |-> DI1 \o <<"G", "2", "6">>, mtrty |-> 33, price |-> NA],
        [symb |-> DI1 \o <<"G", "2", "6">>, mtrty |-> 33, price |-> Str(<<"1", "4">>)]}
SeqsUpTo(S, n) == UNION {[1..k -> S] : k \in 0..n}
Libs == [reversed : {"raises", "negative"}, empty_apply : {"raises", "empty"}]
\* trade dates: business days around the first maturities
TradeDates(c) == {d \in c : d <= 4 \/ (d >= 31 /\ d <= 34)}

InitCurve ==
  /\ InitPure
  /\ pc = "curve"
  /\ \E w0 \in {3, 5, 6}, H \in SUBSET {1, 2} :
       LET c == BizDays(w0, H) IN
         \E d \in TradeDates(c), lib \in Libs :
           \/ \E ac \in BOOLEAN, rows \in SeqsUpTo(TableRows, MaxRows) :
                /\ ac \/ Len(rows) = 1
                /\ arg = [via |-> "scrape", cal |-> c, trade_date |-> d, lib |-> lib,
                          asset_name |-> DI1,
                          input |-> [ajuste_col |-> ac, rows |-> rows]]
           \/ \E asset_name \in {DI1, DAP}, items \in SeqsUpTo(ApiItems, MaxRows) :
                /\ lib.empty_apply = "empty"
                /\ arg = [via |-> "api", cal |-> c, trade_date |-> d, lib |-> lib,
                          asset_name |-> asset_name, input |-> items]

\* the try block of a trading day of the scrape loop, after the tables
\* were combined
ScrapeCurve ==
  /\ pc = "curve" /\ arg.via = "scrape"
  /\ pc' = "curve_done"
  /\ result' = [key |-> arg.trade_date,
                entry |-> ScrapeDayEntry(arg.input, arg.trade_date, arg.cal, arg.lib)]
  /\ UNCHANGED <<arg, path, cal, now, file, ai, db, idx, hoje_ts,
                 date_to_save, alteracao_detectada, runs, loaded, attempted,
                 fileAtStart, writes, prev>>

\* the collection step of one instrument on the API path
ApiCurve ==
  /\ pc = "curve" /\ arg.via = "api"
  /\ pc' = "curve_done"
  /\ result' = [key |-> arg.trade_date,
                entry |-> ApiDayEntry(arg.input, arg.trade_date, arg.cal,
                                      arg.asset_name, arg.lib)]
  /\ UNCHANGED <<arg, path, cal, now, file, ai, db, idx, hoje_ts,
                 date_to_save, alteracao_detectada, runs, loaded, attempted,
                 fileAtStart, writes, prev>>

NextCurve == ScrapeCurve \/ ApiCurve

SpecCurve == InitCurve /\ [][NextCurve]_vars

----------------------------------------------------------------------------
(* Properties *)

\* the N consecutive calendar days ending on h
TrailingWindow(h, n) == (h - n + 1)..h

Window == TrailingWindow(hoje, DIAS_HISTORICO(path))

RunAssets == {ASSETS_CONFIG(path)[i] : i \in 1..Len(ASSETS_CONFIG(path))}

Running == {"loop", "acquire", "fill", "prune", "save"}

\* C1 as stated: after a completed run the date keys of every store are
\* exactly the N consecutive days ending on the run's today.
C1_WindowExact ==
  pc = "done" => \A a \in RunAssets : DOMAIN file[a].data = Window

\* C1 amended: after a completed run the keys of the scrape store are
\* exactly the window; the keys of an API store lie inside the window, include
\* every non-business day of it and the attributed date when it is in the
\* window, and a business day is present only if the loaded store held it or
\* it is the attributed date.
C1_WindowAmended ==
  pc = "done" =>
    \A a \in RunAssets :
      LET K == DOMAIN file[a].data IN
        /\ path = "scrape" => K = Window
        /\ path = "api" =>
             /\ K \subseteq Window
             /\ \A d \in Window : d \notin cal => d \in K
             /\ date_to_save \in Window => date_to_save \in K
             /\ \A d \in K : d \in cal =>
                  (d \in DOMAIN loaded[a] \/ d = date_to_save)

\* an API run completed and a business day of the window has no entry
C1_Witness ==
  /\ pc = "done"
  /\ path = "api"
  /\ \E d \in Window : d \in cal /\ d \notin DOMAIN file["DI1"].data
  /\ \E d \in Window : d \notin cal /\ d \in DOMAIN file["DI1"].data

\* C2: after a completed run no date key outside the trailing window
\* remains in data, whatever keys the loaded store contained.
C2_Prune ==
  pc = "done" =>
    \A a \in RunAssets : \A k \in DOMAIN file[a].data : k \in Window

\* a legacy-format store with a future key was loaded and the run completed
C2_Witness ==
  /\ pc = "done"
  /\ fileAtStart["DI1"].shape = "flat"
  /\ \E k \in DOMAIN loaded["DI1"] : k > hoje
  /\ \E k \in DOMAIN loaded["DI1"] : k < hoje - (DIAS_HISTORICO(path) - 1)

\* C3: every entry of the loaded store whose key lies inside the window
\* is, during and after the run, identical to the loaded entry.
C3_NoOverwrite ==
  /\ pc \in Running =>
       \A k \in DOMAIN loaded[nome] :
         k \in DOMAIN db.data => db.data[k] = loaded[nome][k]
  /\ pc = "done" =>
       \A a \in RunAssets : \A k \in (DOMAIN loaded[a]) \cap Window :
         k \in DOMAIN file[a].data /\ file[a].data[k] = loaded[a][k]

\* a business day stored as erro_coleta by the previous run was inside the
\* window of a later completed run
C3_Witness ==
  /\ pc = "done"
  /\ runs = 2
  /\ \E k \in (DOMAIN loaded["DI1"]) \cap Window :
       k \in cal /\ loaded["DI1"][k].status = "erro_coleta"

\* C4: a run made right after a completed run, on the same today and with
\* the same attributed date (which lies in the window), leaves the data of
\* every store as the first run wrote it and makes no acquisition attempt.
C4_Idempotent ==
  ( /\ pc = "done"
    /\ prev.valid
    /\ prev.hoje = hoje
    /\ prev.date_to_save = date_to_save
    /\ path = "api" => date_to_save \in Window )
  => /\ \A a \in RunAssets : file[a].data = fileAtStart[a].data
     /\ attempted = <<>>

\* the second of two API runs on the same day completed, and the first had
\* stored the attributed date as erro_coleta
C4_Witness ==
  /\ pc = "done"
  /\ prev.valid
  /\ prev.hoje = hoje
  /\ prev.date_to_save = date_to_save
  /\ path = "api"
  /\ date_to_save \in Window
  /\ fileAtStart["DI1"].data[date_to_save].status = "erro_coleta"
  /\ fileAtStart["DAP"].data[date_to_save].status = "dia_util"
  /\ file["DI1"].metadata = hoje_ts

\* the most recent business day on or before d, and the one before d
MostRecentBizday(c, d) ==
  CHOOSE b \in c : b <= d /\ \A x \in c : x <= d => x <= b

PreviousBizday(c, d) ==
  CHOOSE b \in c : b < d /\ \A x \in c : x < d => x < b \/ x = b

\* C5: the attributed date is the previous business day when today is a
\* business day and the time is strictly before 18:01, and otherwise the
\* most recent business day on or before today.
C5_Attribution ==
  pc = "attr_done" =>
    date_to_save =
      IF now[1] \in cal /\ now[2] * 60 + now[3] < 18 * 60 + 1
        THEN PreviousBizday(cal, now[1])
        ELSE MostRecentBizday(cal, now[1])

\* decided at 18:01 of a business day that follows a non-business day
C5_Witness ==
  /\ pc = "attr_done"
  /\ now[2] = 18 /\ now[3] = 1
  /\ now[1] \in cal
  /\ (now[1] - 1) \notin cal
  /\ date_to_save = now[1]

\* the attempts of the run whose acquisition raised up to the date boundary
ExceptionOf(t) ==
  IF path = "scrape" THEN ScrapeException(t[3]) ELSE ApiException(t[3])

\* C6: a date whose acquisition raised gets a Day Entry with status
\* erro_coleta, no contracts and the exception text as message; the run goes
\* on with the remaining dates and that date's failure does not end the run.
C6_Isolation ==
  \A i \in 1..Len(attempted) :
    LET t == attempted[i] IN
      ExceptionOf(t) # "" =>
        /\ pc # "aborted"
        /\ pc = "crashed" => t[1] # nome
        /\ (pc \in Running /\ t[1] = nome /\ t[2] \in DOMAIN db.data) =>
             db.data[t[2]] = [status |-> "erro_coleta", contratos |-> <<>>,
                              erro_msg |-> ExceptionOf(t)]
        /\ (pc = "done" /\ t[2] \in Window) =>
             /\ t[2] \in DOMAIN file[t[1]].data
             /\ file[t[1]].data[t[2]] =
                  [status |-> "erro_coleta", contratos |-> <<>>,
                   erro_msg |-> ExceptionOf(t)]
        /\ (pc = "done" /\ path = "scrape") =>
             DOMAIN file[t[1]].data = Window

\* a scrape run completed in which the first date raised and a later date
\* was collected
C6_Witness ==
  /\ pc = "done"
  /\ path = "scrape"
  /\ Len(attempted) = 2
  /\ ScrapeException(attempted[1][3]) # ""
  /\ attempted[2][3] = "curve"
  /\ file["DI1"].data[attempted[2][2]].status = "dia_util"
  /\ writes["DI1"] = 1

\* inputs of an acquisition that mean "no data": no table in the page, or
\* an absent or empty securities array
NoDataInputs == {"no_tables", "no_scty", "all_skipped"}

\* C7 as stated: no tables or an empty payload gives status no_data with
\* empty contracts.
C7_NoDataStatus ==
  \A i \in 1..Len(attempted) :
    LET t == attempted[i] IN
      (t[3] \in NoDataInputs /\ pc \in Running /\ t[1] = nome
         /\ t[2] \in DOMAIN db.data) =>
        db.data[t[2]].status = "no_data" /\ db.data[t[2]].contratos = <<>>

\* C7 amended: no tables (scrape) or an empty or absent securities payload
\* (API) gives status erro_coleta with empty contracts and an error message
\* (the exception text on the scrape path, "Vazio" on the API path), the same
\* status as for exceptions; no entry written by a run has status no_data.
C7_NoDataAmended ==
  /\ \A i \in 1..Len(attempted) :
       LET t == attempted[i] IN
         (t[3] \in NoDataInputs /\ pc \in Running /\ t[1] = nome
            /\ t[2] \in DOMAIN db.data) =>
           db.data[t[2]] =
             [status |-> "erro_coleta", contratos |-> <<>>,
              erro_msg |-> IF path = "scrape" THEN "No tables found in the HTML"
                                              ELSE "Vazio"]
  /\ \A a \in Assets : \A k \in DOMAIN file[a].data :
       file[a].data[k].status # "no_data"

\* an API run got an answer without the securities array for DAP
C7_Witness ==
  /\ pc = "fill"
  /\ nome = "DAP"
  /\ Len(attempted) = 2
  /\ attempted[2][3] = "no_scty"
  /\ db.data[date_to_save].status = "erro_coleta"

\* C8: within one run each date gets at most one acquisition attempt, and
\* a business date that the previous run stored as erro_coleta is attempted
\* again by the next run while it is inside the window.
C8_RetryAcrossRuns ==
  /\ \A i, j \in 1..Len(attempted) :
       (attempted[i][1] = attempted[j][1] /\ attempted[i][2] = attempted[j][2])
         => i = j
  /\ (pc = "done" /\ prev.valid) =>
       \A f \in prev.failed :
         (f[1] \in RunAssets /\ f[2] \in Window /\ f[2] \in cal
            /\ f[2] \in DOMAIN fileAtStart[f[1]].data) =>
           \E i \in 1..Len(attempted) :
             attempted[i][1] = f[1] /\ attempted[i][2] = f[2]

\* what the store file of f is said to load as
ExpectedLoad(f) ==
  CASE f.shape = "wrapped" -> [metadata |-> f.metadata, data |-> f.data]
    [] f.shape = "flat" /\ DOMAIN f.data # {}
         /\ NonDateKey \notin DOMAIN f.data ->
         [metadata |-> NoTs, data |-> f.data]
    [] OTHER -> EmptyDB

\* C9: loading never raises; an absent file, invalid JSON and JSON of
\* neither recognized shape (a non-object value included) load as the empty
\* store, a flat date mapping loads as the data of an empty-metadata store,
\* and a file with metadata and data loads unchanged.
C9_LoadNeverRaises ==
  /\ pc # "crashed"
  /\ pc \in {"loop", "acquire"} => loaded[nome] = ExpectedLoad(file[nome]).data

\* C10: a run that ends at the calendar load leaves every store file as it
\* was; a file is written at most once in a run, only after its window was
\* processed and pruned, and a file not yet written is as it was at the start.
C10_NoPartialWrite ==
  /\ pc = "aborted" => file = fileAtStart
  /\ \A a \in Assets :
       /\ writes[a] <= 1
       /\ writes[a] = 0 => file[a] = fileAtStart[a]
       /\ writes[a] = 1 =>
            /\ DOMAIN file[a].data \subseteq Window
            /\ file[a].metadata = hoje_ts
            /\ pc = "done" \/ a # nome

\* the calendar load failed in a run that follows a completed run at a later
\* time: the store keeps its data and its older last_updated
C10_Witness ==
  /\ pc = "aborted"
  /\ runs = 2
  /\ prev.valid
  /\ file["DI1"].shape = "wrapped"
  /\ DOMAIN file["DI1"].data # {}
  /\ file["DI1"].metadata # now
  /\ file = fileAtStart

\* C11: every run that gets past the calendar load ends with exactly one
\* write of the store of each instrument, and the written last_updated is
\* the run's timestamp.
C11_AlwaysPersists ==
  pc \in {"done", "crashed"} =>
    \A a \in RunAssets : writes[a] = 1 /\ file[a].metadata = hoje_ts

\* the blocks of the page that are maturity-code and settlement-price blocks
VenctoBlocks == {BlockV2, BlockV3}
AjusteBlocks == {BlockA2, BlockA3}

GoodPairs(tables) ==
  {p \in (1..Len(tables)) \X (1..Len(tables)) :
     /\ tables[p[1]] \in VenctoBlocks
     /\ tables[p[2]] \in AjusteBlocks
     /\ Len(tables[p[1]].rows) = Len(tables[p[2]].rows)}

\* C12: combine succeeds exactly when the list holds a maturity-code block
\* and a settlement-price block with equal row counts, wherever they are;
\* the chosen blocks are such a pair and the result pairs their data rows by
\* position, header row removed; otherwise it fails.
C12_Matching ==
  pc = "norm_done" =>
    /\ result.ok <=> GoodPairs(arg) # {}
    /\ result.ok =>
         /\ <<result.i, result.j>> \in GoodPairs(arg)
         /\ Len(result.combined) = Len(arg[result.i].rows) - 1
         /\ Len(result.combined) = Len(arg[result.j].rows) - 1
         /\ \A k \in 1..Len(result.combined) :
              result.combined[k] =
                <<arg[result.i].rows[k + 1], arg[result.j].rows[k + 1]>>
    /\ ~result.ok => result = NoTable

\* the settlement-price block comes before the maturity-code block, away from
\* positions 7 and 8, among blocks that only resemble them
C12_Witness ==
  /\ pc = "norm_done"
  /\ result.ok
  /\ result.how = "matched"
  /\ result.j < result.i
  /\ arg[result.i] = BlockV3
  /\ \E k \in 1..Len(arg) : arg[k] = BlockAjusteOnly
  /\ Len(result.combined) = 2

AdjacentGoodPairs(tables) == {p \in GoodPairs(tables) : p[2] = p[1] + 1}

\* C16 as stated: when the check of blocks 6 and 7 fails, the chosen pair
\* is an adjacent one (j = i + 1) whenever a matching adjacent pair exists.
C16_PrefersAdjacent ==
  (pc = "norm_done" /\ result.ok /\ result.how = "matched"
     /\ AdjacentGoodPairs(arg) # {})
  => result.j = result.i + 1

\* C16 amended: when the check of blocks 6 and 7 fails, the chosen pair is
\* the first matching pair in index order: the smallest maturity-code index i
\* that has a settlement-price block with as many rows, and the smallest such
\* j; adjacency gives no preference.
C16_FirstInOrder ==
  (pc = "norm_done" /\ result.ok /\ result.how = "matched") =>
    \A q \in GoodPairs(arg) :
      result.i < q[1] \/ (result.i = q[1] /\ result.j <= q[2])

\* a matching adjacent pair exists and an earlier non-adjacent pair is chosen
C16_Witness ==
  /\ pc = "norm_done"
  /\ result.ok
  /\ result.how = "matched"
  /\ AdjacentGoodPairs(arg) # {}
  /\ result.j # result.i + 1

\* the date(2000 + YY, month, base_day) of a code of GoodCodes
BaseDateOf(code, base_day) ==
  LET l == IF code[1] = "f" THEN "F" ELSE code[1]
      mm == CHOOSE m \in 1..12 :
              m = Cardinality({x \in {"F", "G", "H", "J", "K", "M", "N", "Q",
                                      "U", "V", "X", "Z"} :
                                 MONTH_CODES[x] <= MONTH_CODES[l]})
      yy == IF code[3] = "6" THEN 2026 ELSE 2027
  IN (yy - 2026) * 365 + DaysBeforeMonth(mm) + base_day - 1

\* C13: a parsable code resolves to its base date when that is a business
\* day and otherwise to the first business day after it; a code with an
\* unknown letter or a non-numeric year resolves to None and its row is
\* dropped.
C13_Maturity ==
  pc = "mat_done" =>
    /\ arg.code \in GoodCodes =>
         LET b == BaseDateOf(arg.code, arg.base_day) IN
           /\ result.date >= b
           /\ result.date \in arg.cal
           /\ b \in arg.cal => result.date = b
           /\ \A d \in b..(result.date - 1) : d \notin arg.cal
           /\ Len(result.rows) = 1
    /\ arg.code \in BadCodes =>
         result.date = NoDate /\ result.rows = <<>>

\* the first of February is a Sunday and the Monday after it a holiday
C13_Witness ==
  /\ pc = "mat_done"
  /\ arg.base_day = 1
  /\ arg.code = <<"G", "2", "6">>
  /\ (31 + arg.w0) % 7 = 6
  /\ 32 \notin arg.cal
  /\ result.date = 33

\* business days after the trade date up to the maturity date
BusinessDaysBetween(c, trade_date, maturity_date) ==
  Cardinality({b \in c : trade_date < b /\ b <= maturity_date})

\* the rows or items of the input a stored contract can come from
SourceRows(contract) ==
  IF arg.via = "scrape"
    THEN {i \in 1..Len(arg.input.rows) :
            DI1 \o arg.input.rows[i].VENCTO = contract.codigo}
    ELSE {i \in 1..Len(arg.input) :
            /\ Len(arg.input[i].symb) >= 3
            /\ arg.asset_name \o SubSeq(arg.input[i].symb, 4, Len(arg.input[i].symb))
                 = contract.codigo
            /\ arg.input[i].mtrty = contract.vencimento}

\* the input row has a maturity, a price and a positive day count
GoodSource(i) ==
  IF arg.via = "scrape"
    THEN /\ arg.input.rows[i].VENCTO \in GoodCodes
         /\ arg.input.rows[i].AJUSTE \notin {Str(<<"-">>), Str(<<>>), NA}
    ELSE /\ arg.input[i].mtrty \notin {NoMtrty, BadMtrty}
         /\ arg.input[i].price.t = "num"

\* C14: every contract stored in a Day Entry has at least one business day
\* after the entry's date up to its maturity, on both paths, and comes from
\* a row with a resolved maturity and a price.
C14_ContractInvariant ==
  pc = "curve_done" =>
    \A k \in 1..Len(result.entry.contratos) :
      LET q == result.entry.contratos[k] IN
        /\ q.vencimento # NoDate
        /\ BusinessDaysBetween(arg.cal, result.key, q.vencimento) > 0
        /\ q.preco_ajuste # NA /\ q.taxa # NA
        /\ \E i \in SourceRows(q) : GoodSource(i)

\* two rows, one maturing on the trade date: only the other is stored
C14_Witness ==
  /\ pc = "curve_done"
  /\ arg.via = "scrape"
  /\ Len(arg.input.rows) = 2
  /\ \E i \in 1..2 :
       /\ GoodSource(i)
       /\ get_maturity_date(arg.input.rows[i].VENCTO, arg.cal) = arg.trade_date
  /\ Len(result.entry.contratos) = 1

\* a Day Entry under the date key k
WellFormed(k, e) ==
  /\ e.status \in {"dia_util", "feriado", "no_data", "erro_coleta"}
  /\ e.status # "dia_util" => e.contratos = <<>>
  /\ ("erro_msg" \in DOMAIN e) <=> (e.status = "erro_coleta")
  /\ (e.status = "feriado") <=> (k \notin cal)

\* C15: starting from empty stores, every Day Entry, in memory and on disk,
\* has one of the four statuses, has contracts only as a trading day, has an
\* error message exactly as a collection error, and is a holiday exactly
\* when its date is not a business day.
C15_WellFormed ==
  /\ \A a \in Assets : \A k \in DOMAIN file[a].data :
       WellFormed(k, file[a].data[k])
  /\ \A k \in DOMAIN db.data : WellFormed(k, db.data[k])

\* a second run completed and a store holds a holiday, a collection error
\* and a trading day with contracts
C15_Witness ==
  /\ pc = "done"
  /\ runs = 2
  /\ \E a \in RunAssets :
       \E k1, k2, k3 \in DOMAIN file[a].data :
         /\ file[a].data[k1].status = "feriado"
         /\ file[a].data[k2].status = "erro_coleta"
         /\ file[a].data[k3].status = "dia_util"
         /\ file[a].data[k3].contratos # <<>>

\* consecutive business days are fewer than n calendar days apart; the first
\* business day after the horizon is day MaxDay + 1 at the earliest
GapsBelow(c, n) ==
  \A a \in c : \E b \in c \cup {MaxDay + 1} : a < b /\ b - a < n

\* C17: on the API path, for a calendar whose consecutive business days are
\* fewer than N days apart, the attributed date is a business day, not later
\* than today and inside the trailing window of N days; the holiday fill does
\* not target it, the prune does not delete it, it is in every store the run
\* wrote, and every acquisition of the run, for DI1 and for DAP, is made
\* under it.
C17_AttributedInWindow ==
  ( /\ path = "api"
    /\ date_to_save # NoDate
    /\ GapsBelow(cal, DIAS_HISTORICO("api")) )
  => /\ date_to_save \in cal
     /\ date_to_save <= hoje
     /\ date_to_save \in TrailingWindow(hoje, DIAS_HISTORICO("api"))
     /\ pc \in {"fill", "prune", "save"} => date_to_save \in DOMAIN db.data
     /\ pc = "fill" =>
          date_to_save \notin FeriadosFaltando(db.data, cal, hoje, DIAS_HISTORICO("api"))
     /\ pc = "prune" =>
          date_to_save \notin chaves_para_apagar(db.data, hoje, DIAS_HISTORICO("api"))
     /\ pc = "done" =>
          \A a \in RunAssets : date_to_save \in DOMAIN file[a].data
     /\ \A i \in 1..Len(attempted) : attempted[i][2] = date_to_save

\* a run before the close of a business day whose previous business day is
\* the first day of the window acquired both instruments and completed
C17_Witness ==
  /\ path = "api"
  /\ pc = "done"
  /\ GapsBelow(cal, DIAS_HISTORICO("api"))
  /\ hoje \in cal
  /\ date_to_save = hoje - (DIAS_HISTORICO("api") - 1)
  /\ Len(attempted) = 2
  /\ attempted[1][1] = "DI1" /\ attempted[2][1] = "DAP"

====
